---- MODULE Spec2Model ----
(***************************************************************************)
(* HBnB (holbertonschool-hbnb): a model of the part3 REST API              *)
(* (users, auth, admin, reviews, places).                                  *)
(*                                                                         *)
(* Conventions.                                                            *)
(*  - Text that the code inspects character by character (e-mail           *)
(*    addresses: regex match, lower(), strip()) is a sequence of           *)
(*    one-character strings.  Passwords are strings (only len() is used).  *)
(*  - A JSON body is a record with one entry per key the handler can       *)
(*    see; an entry is <<>> when the key is absent and <<v>> when the key  *)
(*    is present with value v.                                             *)
(*  - A bcrypt hash of password p is <<"bcrypt", p>> (the salt is not      *)
(*    modelled: check_password_hash is a function of hash and password);   *)
(*    a string that is no bcrypt hash is <<"raw", s>>.                     *)
(*  - Ids (uuid4) are fresh naturals.  Timestamps are not modelled.        *)
(*  - An access token is its claims (sub, is_admin); `tokens` holds the    *)
(*    tokens issued by a login that have not expired.                      *)
(*  - Ratings are in tenths (59 is the JSON number 5.9); coordinates,     *)
(*    prices and guest counts are whole numbers.                           *)
(*  - `last` records the last request and its response.                    *)
(*                                                                         *)
(* The part2 facade (HBnBFacade over in-memory repositories) is modelled   *)
(* in the variables user_repo, place_repo, review_repo, amenity_repo: a    *)
(* repository is the function of its _storage, from key to object; an      *)
(* object is the record of its attributes; a dict argument is a record.    *)
(*                                                                         *)
(* Requests are handled one at a time, each action a whole handler, but    *)
(* for POST /users under two workers: in_flight[w] is the position of      *)
(* worker w in UserRegistration.post (idle, checked: past the existence    *)
(* check, done: answered) with the payload and the answer.                 *)
(***************************************************************************)
EXTENDS Integers, Sequences, FiniteSets, TLC

VARIABLES users, tokens, amenities, reviews, db_places, places, last,
          user_repo, place_repo, review_repo, amenity_repo, ret, in_flight

vars == <<users, tokens, amenities, reviews, db_places, places, last,
          user_repo, place_repo, review_repo, amenity_repo, ret, in_flight>>

\* the repositories of the part2 facade (HBnBFacade.__init__) and the last
\* call of a facade method with what it returned
part2 == <<user_repo, place_repo, review_repo, amenity_repo, ret>>

\* reviews_db of reviews.py, the table places, places_db of places.py; the
\* part2 application is a separate program; in_flight holds the POST /users
\* requests that two workers are handling at the same time
stores == <<reviews, db_places, places, part2, in_flight>>

----------------------------------------------------------------------------
(* Bounds and input sets *)

MaxUsers == 2
MaxAmenities == 2

None == "None"
Absent == <<>>
Some(v) == <<v>>

EmailLower == <<"a", "@", "x", ".", "i", "o">>
EmailUpper == <<"A", "@", "x", ".", "i", "o">>
EmailOther == <<"b", "@", "x", ".", "i", "o">>
EmailBad == <<"a", "x", ".", "i", "o">>
EmailEmpty == <<>>

\* (email, password, is_admin) of POST /users and POST /admin/users
RegistrationInputs ==
    {<<EmailLower, "secret1", TRUE>>,
     <<EmailUpper, "secret1", FALSE>>,
     <<EmailOther, "secret1", FALSE>>,
     <<EmailOther, "short", FALSE>>,
     <<EmailBad, "secret1", FALSE>>,
     <<EmailEmpty, "secret1", FALSE>>}

\* (email, password) of POST /auth/login
LoginInputs ==
    {<<EmailLower, "secret1">>,
     <<EmailUpper, "secret1">>,
     <<EmailOther, "secret1">>,
     <<EmailOther, "hunter22">>,
     <<EmailBad, "secret1">>}

----------------------------------------------------------------------------
(* Strings *)

LowerSeq == <<"a","b","c","d","e","f","g","h","i","j","k","l","m",
              "n","o","p","q","r","s","t","u","v","w","x","y","z">>
UpperSeq == <<"A","B","C","D","E","F","G","H","I","J","K","L","M",
              "N","O","P","Q","R","S","T","U","V","W","X","Y","Z">>
Digits == {"0","1","2","3","4","5","6","7","8","9"}
Letters == {LowerSeq[i] : i \in 1..26} \cup {UpperSeq[i] : i \in 1..26}

LocalChars == Letters \cup Digits \cup {".", "_", "%", "+", "-"}
DomainChars == Letters \cup Digits \cup {".", "-"}

\* str.lower() on one character
LowerChar(c) ==
    IF \E i \in 1..26 : UpperSeq[i] = c
    THEN LowerSeq[CHOOSE i \in 1..26 : UpperSeq[i] = c]
    ELSE c

\* str.lower()
lower(s) == [i \in 1..Len(s) |-> LowerChar(s[i])]

RECURSIVE lstrip(_)
lstrip(s) == IF s # <<>> /\ Head(s) = " " THEN lstrip(Tail(s)) ELSE s

RECURSIVE rstrip(_)
rstrip(s) ==
    IF s # <<>> /\ s[Len(s)] = " " THEN rstrip(SubSeq(s, 1, Len(s) - 1)) ELSE s

\* str.strip()
strip(s) == rstrip(lstrip(s))

\* EMAIL_REGEX = ^[a-zA-Z0-9._%+-]+@[a-zA-Z0-9.-]+\.[a-zA-Z]{2,}$
EMAIL_REGEX(s) ==
    \E i \in 1..Len(s), j \in 1..Len(s) :
        /\ i > 1
        /\ \A k \in 1..(i - 1) : s[k] \in LocalChars
        /\ s[i] = "@"
        /\ j > i + 1
        /\ \A k \in (i + 1)..(j - 1) : s[k] \in DomainChars
        /\ s[j] = "."
        /\ Len(s) - j >= 2
        /\ \A k \in (j + 1)..Len(s) : s[k] \in Letters

\* validate_email (users.py, utils.py, auth.py: the three copies agree)
validate_email(email) ==
    IF email = <<>> THEN FALSE ELSE EMAIL_REGEX(strip(email))

\* validate_password: "ok" or the reason of the rejection
validate_password(password) ==
    IF password = "" THEN "required"
    ELSE IF Len(password) < 6 THEN "too_short"
    ELSE "ok"

----------------------------------------------------------------------------
(* User model *)

\* User._hash_password
hash_password(password) == <<"bcrypt", password>>

\* User._normalize_email
normalize_email(email) == strip(lower(email))

\* User._normalize_name (names carry no surrounding blanks in this model)
normalize_name(name) == IF name = None \/ name = "" THEN None ELSE name

\* User.__init__ after its validations
NewUser(email, password, first_name, last_name, is_admin) ==
    [email |-> normalize_email(email),
     password_hash |-> hash_password(password),
     first_name |-> normalize_name(first_name),
     last_name |-> normalize_name(last_name),
     is_admin |-> is_admin]

\* User.__init__: _validate_email and _validate_password raise ValueError
UserInitRaises(email, password) ==
    \/ email = <<>>
    \/ ~(\E i \in 1..Len(email) : email[i] = "@")
    \/ ~(\E i \in 1..Len(email) : email[i] = ".")
    \/ password = ""
    \/ Len(password) < 6

\* User.verify_password: "true", "false", or "raise" when the stored
\* value is no bcrypt hash (bcrypt.check_password_hash: ValueError).
verify_password(u, password) ==
    IF password = "" \/ u.password_hash = <<>> THEN "false"
    ELSE IF u.password_hash[1] # "bcrypt" THEN "raise"
    ELSE IF u.password_hash = hash_password(password) THEN "true"
    ELSE "false"

\* BaseModel.to_dict
base_to_dict(id) ==
    [k \in {"id", "created_at", "updated_at"} |->
        IF k = "id" THEN Some(id) ELSE Some("iso")]

\* dict.update
DictUpdate(d, e) ==
    [k \in DOMAIN d \cup DOMAIN e |-> IF k \in DOMAIN e THEN e[k] ELSE d[k]]

\* User.to_dict, had it serialised every column
to_dict_with_hash(id, u) ==
    DictUpdate(base_to_dict(id),
               [email |-> Some(u.email),
                password_hash |-> Some(u.password_hash),
                first_name |-> Some(u.first_name),
                last_name |-> Some(u.last_name),
                is_admin |-> Some(u.is_admin)])

\* User.to_dict
to_dict(id, u) ==
    DictUpdate(base_to_dict(id),
               [email |-> Some(u.email),
                first_name |-> Some(u.first_name),
                last_name |-> Some(u.last_name),
                is_admin |-> Some(u.is_admin)])

\* User.get_by_email: the id of the user, 0 for None
get_by_email(us, email) ==
    IF email = <<>> THEN 0
    ELSE IF \E i \in 1..Len(us) : us[i].email = strip(lower(email))
         THEN CHOOSE i \in 1..Len(us) : us[i].email = strip(lower(email))
         ELSE 0

\* User.get_by_id: the id of the user, 0 for None
get_by_id(us, id) == IF id \in 1..Len(us) THEN id ELSE 0

\* a table users without the unique index on email
UniqueViolation_no_index(us) == FALSE

\* db.session.commit() raises IntegrityError: users.email is unique
\* (SQLite compares the strings byte by byte)
UniqueViolation(us) ==
    \E i, j \in 1..Len(us) : i # j /\ us[i].email = us[j].email

----------------------------------------------------------------------------
(* JWT (flask_jwt_extended) *)

NoToken == [sub |-> 0, is_admin |-> FALSE]

\* create_access_token(identity=str(user.id),
\*                     additional_claims={'is_admin': user.is_admin})
create_access_token(id, is_admin) == [sub |-> id, is_admin |-> is_admin]

\* @jwt_required(): the token was issued by this application and has not
\* expired (expires_delta = 1 hour); otherwise the loaders of
\* app/__init__.py answer 401 and the handler does not run.
jwt_required(t) == t \in tokens

\* get_jwt_identity()
get_jwt_identity(t) == t.sub

\* get_jwt().get('is_admin', False)
claim_is_admin(t) == t.is_admin

\* utils.get_current_admin_user, had it not read the is_admin claim
get_current_admin_user_any(us, t) == get_by_id(us, get_jwt_identity(t))

\* utils.get_current_admin_user: the admin's id, 0 for None
get_current_admin_user(us, t) ==
    IF ~claim_is_admin(t) THEN 0 ELSE get_by_id(us, get_jwt_identity(t))

----------------------------------------------------------------------------
(* Requests and responses *)

Response(op, status, tok, target, email, password, data, issued) ==
    [op |-> op, status |-> status, tok |-> tok, target |-> target,
     email |-> email, password |-> password, data |-> data,
     issued |-> issued]

\* a JSON body of the user endpoints
UserBody(email, password, first_name, last_name, is_admin, password_hash) ==
    [email |-> email, password |-> password, first_name |-> first_name,
     last_name |-> last_name, is_admin |-> is_admin,
     password_hash |-> password_hash]

EmptyBody == UserBody(Absent, Absent, Absent, Absent, Absent, Absent)

\* `if not update_data`: None or {}
IsEmpty(body) == \A k \in DOMAIN body : body[k] = Absent

\* bodies of PUT /users/<id>
UserPutBodies ==
    {EmptyBody,
     UserBody(Absent, Absent, Some("Ann"), Absent, Absent, Absent),
     UserBody(Some(EmailOther), Some("hunter22"), Absent, Absent, Absent, Absent),
     UserBody(Absent, Absent, Absent, Absent, Absent,
              Some(<<"bcrypt", "hunter22">>))}

\* bodies of PUT /admin/users/<id> that carry an email
AdminEmailBodies ==
    {UserBody(Some(EmailUpper), Absent, Absent, Absent, Absent, Absent),
     UserBody(Some(EmailOther), Absent, Absent, Absent, Absent, Absent),
     UserBody(Some(EmailBad), Absent, Absent, Absent, Absent, Absent)}

\* bodies of PUT /admin/users/<id> that carry none
AdminPutBodies ==
    {EmptyBody,
     UserBody(Absent, Absent, Some("Ann"), Absent, Absent, Absent),
     UserBody(Absent, Some("hunter22"), Absent, Absent, Absent, Absent),
     UserBody(Absent, Some("short"), Absent, Absent, Absent, Absent)}

\* for field, value in update_data.items():
\*     if hasattr(user, field) and value is not None: setattr(user, field, value)
\* over the keys in `fields` (every one a column of User)
SetAttrs(u, body, fields) ==
    [k \in DOMAIN u |->
        IF k \in fields /\ body[k] # Absent THEN body[k][1] ELSE u[k]]

----------------------------------------------------------------------------
(* State *)

\* HBnBFacade.__init__: four empty repositories
InitFacadeEmpty ==
    /\ user_repo = <<>>
    /\ place_repo = <<>>
    /\ review_repo = <<>>
    /\ amenity_repo = <<>>
    /\ ret = [op |-> "init"]

Init ==
    /\ InitFacadeEmpty
    /\ in_flight = [w \in {1, 2} |-> [pc |-> "idle"]]
    /\ users = <<>>
    /\ tokens = {}
    /\ amenities = <<>>
    /\ reviews = <<>>
    /\ db_places = <<>>
    /\ places = <<>>
    /\ last = Response("init", 0, NoToken, 0, <<>>, "", <<>>, NoToken)

----------------------------------------------------------------------------
(* api/v1/users.py *)

\* UserRegistration.post: status and the user stored, if any
RegistrationStatus(us, email, password, first_name, last_name, is_admin) ==
    IF email = <<>> \/ password = "" THEN 400
    ELSE IF ~validate_email(email) THEN 400
    ELSE IF validate_password(password) # "ok" THEN 400
    ELSE IF get_by_email(us, email) # 0 THEN 409
    ELSE IF UserInitRaises(email, password) THEN 400
    ELSE IF UniqueViolation(
                Append(us, NewUser(email, password, first_name, last_name, is_admin)))
         THEN 409
    ELSE 201

\* POST /users
Register(email, password, first_name, is_admin) ==
    LET st == RegistrationStatus(users, email, password, first_name, None, is_admin)
        u == NewUser(email, password, first_name, None, is_admin)
    IN  /\ st = 201 => Len(users) < MaxUsers
        /\ users' = IF st = 201 THEN Append(users, u) ELSE users
        /\ last' = Response("register", st, NoToken, 0, email, password,
                            IF st = 201 THEN <<to_dict(Len(users) + 1, u)>> ELSE <<>>,
                            NoToken)
        /\ UNCHANGED <<tokens, amenities, stores>>

\* UserRegistration.post of worker w up to the existence check: the payload
\* is validated and User.get_by_email reads the table; the worker answers
\* 400 or 409 here, or goes on to create and save the user
UserRegistration_check(w, email, password, first_name, is_admin) ==
    LET st == IF email = <<>> \/ password = "" THEN 400
              ELSE IF ~validate_email(email) THEN 400
              ELSE IF validate_password(password) # "ok" THEN 400
              ELSE IF get_by_email(users, email) # 0 THEN 409
              ELSE IF UserInitRaises(email, password) THEN 400
              ELSE 0
        payload == [email |-> email, password |-> password,
                    first_name |-> first_name, is_admin |-> is_admin]
    IN  /\ in_flight[w].pc # "checked"
        /\ Len(users) + Cardinality({v \in {1, 2} : in_flight[v].pc = "checked"})
             < MaxUsers
        /\ in_flight' =
             [in_flight EXCEPT ![w] =
                 IF st = 0
                 THEN [pc |-> "checked", status |-> 0, saved |-> FALSE] @@ payload
                 ELSE [pc |-> "done", status |-> st, saved |-> FALSE] @@ payload]
        /\ UNCHANGED <<users, tokens, amenities, last, reviews, db_places, places,
                       part2>>

\* UserRegistration.post of worker w from db.session.add to the answer:
\* the INSERT of commit() fails with IntegrityError when the e-mail address
\* is in the table by now (409, rollback), else the user is stored (201)
UserRegistration_commit(w) ==
    LET r == in_flight[w]
        u == NewUser(r.email, r.password, r.first_name, None, r.is_admin)
        conflict == UniqueViolation(Append(users, u))
    IN  /\ r.pc = "checked"
        /\ users' = IF conflict THEN users ELSE Append(users, u)
        /\ in_flight' =
             [in_flight EXCEPT ![w] =
                 [r EXCEPT !.pc = "done",
                           !.status = IF conflict THEN 409 ELSE 201,
                           !.saved = TRUE]]
        /\ UNCHANGED <<tokens, amenities, last, reviews, db_places, places, part2>>

\* the handlers behind @jwt_required() answer 401 without running when the
\* token is missing, unknown or expired
Unauthorized(op, t, target) ==
    /\ ~jwt_required(t)
    /\ last' = Response(op, 401, t, target, <<>>, "", <<>>, NoToken)
    /\ UNCHANGED <<users, tokens, amenities, stores>>

\* UserResource.get: status
UserGetStatus(us, t, user_id) ==
    IF get_jwt_identity(t) # user_id /\ ~claim_is_admin(t) THEN 401
    ELSE IF get_by_id(us, user_id) = 0 THEN 404
    ELSE 200

\* GET /users/<user_id>
UserGet(t, user_id) ==
    \/ Unauthorized("user_get", t, user_id)
    \/ /\ jwt_required(t)
       /\ LET st == UserGetStatus(users, t, user_id)
          IN  last' = Response("user_get", st, t, user_id, <<>>, "",
                               IF st = 200 THEN <<to_dict(user_id, users[user_id])>>
                               ELSE <<>>,
                               NoToken)
       /\ UNCHANGED <<users, tokens, amenities, stores>>

\* UserResource.put, lines 294-303: email and password are deleted from the
\* body, every other key that names an attribute is set
UserPutFields == {"first_name", "last_name", "is_admin", "password_hash"}

\* UserResource.put, had it not compared the identity with user_id
UserPutStatus_no_owner_check(us, t, user_id, body) ==
    IF get_by_id(us, user_id) = 0 THEN 404
    ELSE IF IsEmpty(body) THEN 400
    ELSE IF UniqueViolation([us EXCEPT ![user_id] = SetAttrs(@, body, UserPutFields)])
         THEN 500
    ELSE 200

\* UserResource.put: status
UserPutStatus(us, t, user_id, body) ==
    IF get_jwt_identity(t) # user_id /\ ~claim_is_admin(t) THEN 401
    ELSE IF get_by_id(us, user_id) = 0 THEN 404
    ELSE IF IsEmpty(body) THEN 400
    ELSE IF UniqueViolation([us EXCEPT ![user_id] = SetAttrs(@, body, UserPutFields)])
         THEN 500
    ELSE 200

\* PUT /users/<user_id>
UserPut(t, user_id, body) ==
    \/ Unauthorized("user_put", t, user_id)
    \/ /\ jwt_required(t)
       /\ LET st == UserPutStatus(users, t, user_id, body)
              us == IF st = 200
                    THEN [users EXCEPT ![user_id] = SetAttrs(@, body, UserPutFields)]
                    ELSE users
          IN  /\ users' = us
              /\ last' = Response("user_put", st, t, user_id, <<>>, "",
                                  IF st = 200 THEN <<to_dict(user_id, us[user_id])>>
                                  ELSE <<>>,
                                  NoToken)
       /\ UNCHANGED <<tokens, amenities, stores>>

\* GET /users/me
CurrentUser(t) ==
    \/ Unauthorized("user_me", t, 0)
    \/ /\ jwt_required(t)
       /\ LET id == get_by_id(users, get_jwt_identity(t))
          IN  last' = Response("user_me", IF id = 0 THEN 404 ELSE 200, t, 0, <<>>, "",
                               IF id = 0 THEN <<>> ELSE <<to_dict(id, users[id])>>,
                               NoToken)
       /\ UNCHANGED <<users, tokens, amenities, stores>>

\* GET /users (UserList.get)
UserList(t) ==
    \/ Unauthorized("user_list", t, 0)
    \/ /\ jwt_required(t)
       /\ last' = Response("user_list", IF claim_is_admin(t) THEN 200 ELSE 401,
                           t, 0, <<>>, "",
                           IF claim_is_admin(t)
                           THEN [i \in 1..Len(users) |-> to_dict(i, users[i])]
                           ELSE <<>>,
                           NoToken)
       /\ UNCHANGED <<users, tokens, amenities, stores>>

----------------------------------------------------------------------------
(* api/v1/auth.py *)

\* validate_credentials
validate_credentials(email, password) ==
    ~(email = <<>> \/ password = "") /\ validate_email(email) /\ Len(password) >= 1

\* Login.post: status
LoginStatus(us, email, password) ==
    IF ~validate_credentials(email, password) THEN 400
    ELSE IF get_by_email(us, email) = 0 THEN 401
    ELSE LET v == verify_password(us[get_by_email(us, email)], password)
         IN  IF v = "raise" THEN 500 ELSE IF v = "false" THEN 401 ELSE 200

\* POST /auth/login
Login(email, password) ==
    LET st == LoginStatus(users, email, password)
        id == get_by_email(users, email)
        tok == IF st = 200
               THEN create_access_token(id, users[id].is_admin)
               ELSE NoToken
    IN  /\ tokens' = IF st = 200 THEN tokens \cup {tok} ELSE tokens
        /\ last' = Response("login", st, NoToken, 0, email, password, <<>>, tok)
        /\ UNCHANGED <<users, amenities, stores>>

\* GET /auth/protected
Protected(t) ==
    \/ Unauthorized("protected", t, 0)
    \/ /\ jwt_required(t)
       /\ LET id == get_by_id(users, get_jwt_identity(t))
          IN  last' = Response("protected", IF id = 0 THEN 401 ELSE 200, t,
                               IF id = 0 THEN 0 ELSE get_jwt_identity(t),
                               <<>>, "", <<>>, NoToken)
       /\ UNCHANGED <<users, tokens, amenities, stores>>

\* the hour of an access token runs out (JWT_ACCESS_TOKEN_EXPIRES)
ExpireToken(t) ==
    /\ t \in tokens
    /\ tokens' = tokens \ {t}
    /\ last' = Response("expire", 0, t, 0, <<>>, "", <<>>, NoToken)
    /\ UNCHANGED <<users, amenities, stores>>

\* POST /auth/logout: the token is reported, no list of revoked tokens is kept
Logout(t) ==
    \/ Unauthorized("logout", t, 0)
    \/ /\ jwt_required(t)
       /\ last' = Response("logout", 200, t, 0, <<>>, "", <<>>, NoToken)
       /\ UNCHANGED <<users, tokens, amenities, stores>>

----------------------------------------------------------------------------
(* api/v1/admin.py: users *)

\* the 403 of every /admin handler
Forbidden(op, t, target) ==
    /\ jwt_required(t)
    /\ get_current_admin_user(users, t) = 0
    /\ last' = Response(op, 403, t, target, <<>>, "", <<>>, NoToken)
    /\ UNCHANGED <<users, tokens, amenities, stores>>

\* POST /admin/users
AdminUserPost(t, email, password, first_name, is_admin) ==
    \/ Unauthorized("admin_user_post", t, 0)
    \/ Forbidden("admin_user_post", t, 0)
    \/ /\ jwt_required(t)
       /\ get_current_admin_user(users, t) # 0
       /\ LET st == RegistrationStatus(users, email, password, first_name, None, is_admin)
              u == NewUser(email, password, first_name, None, is_admin)
          IN  /\ st = 201 => Len(users) < MaxUsers
              /\ users' = IF st = 201 THEN Append(users, u) ELSE users
              /\ last' = Response("admin_user_post", st, t, 0, email, password,
                                  IF st = 201 THEN <<to_dict(Len(users) + 1, u)>>
                                  ELSE <<>>,
                                  NoToken)
       /\ UNCHANGED <<tokens, amenities, stores>>

\* GET /admin/users
AdminUserGet(t) ==
    \/ Unauthorized("admin_user_get", t, 0)
    \/ Forbidden("admin_user_get", t, 0)
    \/ /\ jwt_required(t)
       /\ get_current_admin_user(users, t) # 0
       /\ last' = Response("admin_user_get", 200, t, 0, <<>>, "",
                           [i \in 1..Len(users) |-> to_dict(i, users[i])], NoToken)
       /\ UNCHANGED <<users, tokens, amenities, stores>>

\* class User defines update_password but no set_password: the call of
\* admin.py line 324 raises AttributeError
UserHasSetPassword == FALSE

\* AdminUserResource.put, lines 326-329: every key but password is set
AdminPutFields == {"email", "first_name", "last_name", "is_admin", "password_hash"}

\* `'k' in update_data and update_data['k']`
Truthy(body, k, empty) == body[k] # Absent /\ body[k][1] # empty

\* AdminUserResource.put after the admin check: status
AdminUserPutStatus(us, user_id, body) ==
    IF get_by_id(us, user_id) = 0 THEN 404
    ELSE IF IsEmpty(body) THEN 400
    ELSE IF Truthy(body, "email", <<>>) /\ ~validate_email(body.email[1]) THEN 400
    ELSE IF Truthy(body, "email", <<>>)
            /\ get_by_email(us, body.email[1]) \notin {0, user_id} THEN 409
    ELSE IF Truthy(body, "password", "")
            /\ validate_password(body.password[1]) # "ok" THEN 400
    ELSE IF Truthy(body, "password", "") /\ ~UserHasSetPassword THEN 500
    ELSE IF UniqueViolation([us EXCEPT ![user_id] = SetAttrs(@, body, AdminPutFields)])
         THEN 500
    ELSE 200

\* AdminUserResource.put: the user as committed on a 200
AdminUserPutUser(u, body) ==
    LET v == SetAttrs(u, body, AdminPutFields)
    IN  IF Truthy(body, "password", "")
        THEN [v EXCEPT !.password_hash =
                 IF body.password_hash # Absent THEN body.password_hash[1]
                 ELSE hash_password(body.password[1])]
        ELSE v

\* PUT /admin/users/<user_id>
AdminUserPut(t, user_id, body) ==
    \/ Unauthorized("admin_user_put", t, user_id)
    \/ Forbidden("admin_user_put", t, user_id)
    \/ /\ jwt_required(t)
       /\ get_current_admin_user(users, t) # 0
       /\ LET st == AdminUserPutStatus(users, user_id, body)
              us == IF st = 200
                    THEN [users EXCEPT ![user_id] = AdminUserPutUser(@, body)]
                    ELSE users
          IN  /\ users' = us
              /\ last' = Response("admin_user_put", st, t, user_id,
                                  IF body.email = Absent THEN <<>> ELSE body.email[1],
                                  IF body.password = Absent THEN "" ELSE body.password[1],
                                  IF st = 200 THEN <<to_dict(user_id, us[user_id])>>
                                  ELSE <<>>,
                                  NoToken)
       /\ UNCHANGED <<tokens, amenities, stores>>

----------------------------------------------------------------------------
(* api/v1/admin.py and app/models/amenity.py: amenities *)

AmenityBody(name, description) == [name |-> name, description |-> description]

AmenityBodies ==
    {AmenityBody(Absent, Absent),
     AmenityBody(Absent, Some("fast")),
     AmenityBody(Some("WiFi"), Absent),
     AmenityBody(Some("Pool"), Some("fast"))}

\* Amenity.to_dict
amenity_to_dict(id, a) ==
    [id |-> Some(id), name |-> Some(a.name), description |-> Some(a.description),
     created_at |-> Some("iso"), updated_at |-> Some("iso")]

\* amenities.name is unique: commit raises IntegrityError
AmenityUniqueViolation(am) ==
    \E i, j \in DOMAIN am : i # j /\ am[i].name = am[j].name

\* a function with one more entry
Put(f, k, v) == [x \in DOMAIN f \cup {k} |-> IF x = k THEN v ELSE f[x]]

\* a function with one entry fewer
Remove(f, k) == [x \in DOMAIN f \ {k} |-> f[x]]

\* the row Amenity(**kwargs) builds from the body
NewAmenity(body) ==
    [name |-> body.name[1],
     description |-> IF body.description = Absent THEN None ELSE body.description[1]]

\* Amenity.create: TRUE when the row is committed, FALSE when the commit
\* fails and create returns None
AmenityCreateOk(am, id, body) == ~AmenityUniqueViolation(Put(am, id, NewAmenity(body)))

\* Amenity.update_from_dict
amenity_update_from_dict(a, body) ==
    [k \in DOMAIN a |-> IF body[k] # Absent THEN body[k][1] ELSE a[k]]

FreshAmenityId == CHOOSE i \in 1..(MaxAmenities + 1) : i \notin DOMAIN amenities

\* POST /admin/amenities
AdminAmenityPost(t, body) ==
    \/ Unauthorized("admin_amenity_post", t, 0)
    \/ Forbidden("admin_amenity_post", t, 0)
    \/ /\ jwt_required(t)
       /\ get_current_admin_user(users, t) # 0
       /\ LET id == FreshAmenityId
              st == IF body.name = Absent THEN 400
                    ELSE IF ~AmenityCreateOk(amenities, id, body) THEN 500
                    ELSE 201
          IN  /\ st = 201 => Cardinality(DOMAIN amenities) < MaxAmenities
              /\ amenities' = IF st = 201 THEN Put(amenities, id, NewAmenity(body))
                              ELSE amenities
              /\ last' = Response("admin_amenity_post", st, t, 0, <<>>, "",
                                  IF st = 201 THEN <<amenity_to_dict(id, NewAmenity(body))>>
                                  ELSE <<>>,
                                  NoToken) @@ [body |-> body]
       /\ UNCHANGED <<users, tokens, stores>>

\* GET /admin/amenities
AdminAmenityGet(t) ==
    \/ Unauthorized("admin_amenity_get", t, 0)
    \/ Forbidden("admin_amenity_get", t, 0)
    \/ /\ jwt_required(t)
       /\ get_current_admin_user(users, t) # 0
       /\ last' = Response("admin_amenity_get", 200, t, 0, <<>>, "", <<>>, NoToken)
       /\ UNCHANGED <<users, tokens, amenities, stores>>

\* AdminAmenityResource.put after the admin check: status
AdminAmenityPutStatus(am, amenity_id, body) ==
    IF amenity_id \notin DOMAIN am THEN 404
    ELSE IF body.name = Absent /\ body.description = Absent THEN 400
    ELSE IF AmenityUniqueViolation(
                [am EXCEPT ![amenity_id] = amenity_update_from_dict(@, body)])
         THEN 500
    ELSE 200

\* PUT /admin/amenities/<amenity_id>
AdminAmenityPut(t, amenity_id, body) ==
    \/ Unauthorized("admin_amenity_put", t, amenity_id)
    \/ Forbidden("admin_amenity_put", t, amenity_id)
    \/ /\ jwt_required(t)
       /\ get_current_admin_user(users, t) # 0
       /\ LET st == AdminAmenityPutStatus(amenities, amenity_id, body)
          IN  /\ amenities' =
                    IF st = 200
                    THEN [amenities EXCEPT ![amenity_id] = amenity_update_from_dict(@, body)]
                    ELSE amenities
              /\ last' = Response("admin_amenity_put", st, t, amenity_id, <<>>, "",
                                  <<>>, NoToken)
       /\ UNCHANGED <<users, tokens, stores>>

\* DELETE /admin/amenities/<amenity_id>
AdminAmenityDelete(t, amenity_id) ==
    \/ Unauthorized("admin_amenity_delete", t, amenity_id)
    \/ Forbidden("admin_amenity_delete", t, amenity_id)
    \/ /\ jwt_required(t)
       /\ get_current_admin_user(users, t) # 0
       /\ LET st == IF amenity_id \notin DOMAIN amenities THEN 404 ELSE 200
          IN  /\ amenities' = IF st = 200 THEN Remove(amenities, amenity_id)
                              ELSE amenities
              /\ last' = Response("admin_amenity_delete", st, t, amenity_id, <<>>, "",
                                  <<>>, NoToken)
       /\ UNCHANGED <<users, tokens, stores>>

----------------------------------------------------------------------------
(* api/v1/reviews.py *)

MaxReviews == 2

\* a request and its response, for the endpoints with a JSON body of their own
Reply(op, status, tok, target, body, data) ==
    [op |-> op, status |-> status, tok |-> tok, target |-> target,
     body |-> body, data |-> data]

ReviewBody(place_id, rating, comment, user_id) ==
    [place_id |-> place_id, rating |-> rating, comment |-> comment,
     user_id |-> user_id]

EmptyReviewBody == ReviewBody(Absent, Absent, Absent, Absent)

\* int() of a JSON number: the fraction is cut off (numbers are in tenths)
py_int(x) == IF x >= 0 THEN x \div 10 ELSE -((-x) \div 10)

\* `1 <= rating <= 5` after `rating = int(rating)`
RatingInRange(rating) == 1 <= py_int(rating) /\ py_int(rating) <= 5

\* validate_review_data
validate_review_data(body) ==
    /\ ~IsEmpty(body)
    /\ body.place_id # Absent
    /\ body.rating # Absent
    /\ RatingInRange(body.rating[1])

\* Facade.get_place: the id of the place in the table places, 0 for None
facade_get_place(dbp, place_id) == IF place_id \in DOMAIN dbp THEN place_id ELSE 0

\* get_user_review_for_place: the id of the review, 0 for None
get_user_review_for_place(rv, user_id, place_id) ==
    IF \E r \in DOMAIN rv : rv[r].user_id = user_id /\ rv[r].place_id = place_id
    THEN CHOOSE r \in DOMAIN rv : rv[r].user_id = user_id /\ rv[r].place_id = place_id
    ELSE 0

\* create_review: the Review stored
create_review(body, user_id) ==
    [place_id |-> body.place_id[1],
     user_id |-> user_id,
     rating |-> body.rating[1],
     comment |-> IF body.comment = Absent THEN None ELSE body.comment[1]]

\* update_review: every key that names an attribute of the Review is set
update_review(review, body) ==
    [k \in DOMAIN review |-> IF body[k] # Absent THEN body[k][1] ELSE review[k]]

\* Review.to_dict
review_to_dict(id, review) ==
    [id |-> id, place_id |-> review.place_id, user_id |-> review.user_id,
     rating |-> review.rating, comment |-> review.comment]

\* get_current_user (reviews.py, places.py): the id of the user, 0 for None
get_current_user(us, t) == get_by_id(us, get_jwt_identity(t))

\* the 401 of @jwt_required() for the endpoints of reviews and places
Unauthenticated(op, t, target, body) ==
    /\ ~jwt_required(t)
    /\ last' = Reply(op, 401, t, target, body, <<>>)
    /\ UNCHANGED <<users, tokens, amenities, stores>>

\* ReviewsList.post: status
ReviewPostStatus(us, rv, dbp, t, body) ==
    IF get_current_user(us, t) = 0 THEN 401
    ELSE IF ~validate_review_data(body) THEN 400
    ELSE IF facade_get_place(dbp, body.place_id[1]) = 0 THEN 404
    ELSE IF dbp[body.place_id[1]].owner_id = get_current_user(us, t) THEN 403
    ELSE IF get_user_review_for_place(rv, get_current_user(us, t), body.place_id[1]) # 0
         THEN 409
    ELSE 201

FreshReviewId == CHOOSE i \in 1..(MaxReviews + 1) : i \notin DOMAIN reviews

\* POST /reviews
ReviewPost(t, body) ==
    \/ Unauthenticated("review_post", t, 0, body)
    \/ /\ jwt_required(t)
       /\ LET st == ReviewPostStatus(users, reviews, db_places, t, body)
              id == FreshReviewId
              rv == IF st = 201
                    THEN Put(reviews, id, create_review(body, get_current_user(users, t)))
                    ELSE reviews
          IN  /\ st = 201 => Cardinality(DOMAIN reviews) < MaxReviews
              /\ reviews' = rv
              /\ last' = Reply("review_post", st, t, IF st = 201 THEN id ELSE 0, body,
                               IF st = 201 THEN <<review_to_dict(id, rv[id])>> ELSE <<>>)
       /\ UNCHANGED <<users, tokens, amenities, db_places, places, part2, in_flight>>

\* ReviewResource.put: status
ReviewPutStatus(us, rv, t, review_id, body) ==
    IF get_current_user(us, t) = 0 THEN 401
    ELSE IF review_id \notin DOMAIN rv THEN 404
    ELSE IF rv[review_id].user_id # get_current_user(us, t) /\ ~claim_is_admin(t) THEN 403
    ELSE IF ~IsEmpty(body) /\ body.rating # Absent /\ ~RatingInRange(body.rating[1])
         THEN 400
    ELSE 200

\* PUT /reviews/<review_id>
ReviewPut(t, review_id, body) ==
    \/ Unauthenticated("review_put", t, review_id, body)
    \/ /\ jwt_required(t)
       /\ LET st == ReviewPutStatus(users, reviews, t, review_id, body)
              rv == IF st = 200
                    THEN [reviews EXCEPT ![review_id] = update_review(@, body)]
                    ELSE reviews
          IN  /\ reviews' = rv
              /\ last' = Reply("review_put", st, t, review_id, body,
                               IF st = 200 THEN <<review_to_dict(review_id, rv[review_id])>>
                               ELSE <<>>)
       /\ UNCHANGED <<users, tokens, amenities, db_places, places, part2, in_flight>>

\* ReviewResource.delete: status
ReviewDeleteStatus(us, rv, t, review_id) ==
    IF get_current_user(us, t) = 0 THEN 401
    ELSE IF review_id \notin DOMAIN rv THEN 404
    ELSE IF rv[review_id].user_id # get_current_user(us, t) /\ ~claim_is_admin(t) THEN 403
    ELSE 200

\* DELETE /reviews/<review_id>
ReviewDelete(t, review_id) ==
    \/ Unauthenticated("review_delete", t, review_id, EmptyReviewBody)
    \/ /\ jwt_required(t)
       /\ LET st == ReviewDeleteStatus(users, reviews, t, review_id)
          IN  /\ reviews' = IF st = 200 THEN Remove(reviews, review_id) ELSE reviews
              /\ last' = Reply("review_delete", st, t, review_id, EmptyReviewBody, <<>>)
       /\ UNCHANGED <<users, tokens, amenities, db_places, places, part2, in_flight>>

\* GET /reviews/place/<place_id> (public)
PlaceReviews(place_id) ==
    /\ last' = Reply("place_reviews",
                     IF facade_get_place(db_places, place_id) = 0 THEN 404 ELSE 200,
                     NoToken, place_id, EmptyReviewBody, <<>>)
    /\ UNCHANGED <<users, tokens, amenities, stores>>

----------------------------------------------------------------------------
(* api/v1/places.py *)

MaxPlaces == 2

PlaceFields ==
    {"name", "description", "address", "price_per_night", "max_guests",
     "latitude", "longitude", "owner_id"}

EmptyPlaceBody == [k \in PlaceFields |-> Absent]

\* a JSON object with the given entries
PlaceBody(entries) ==
    [k \in PlaceFields |-> IF k \in DOMAIN entries THEN Some(entries[k]) ELSE Absent]

\* float() of a JSON number: its value (numbers are in tenths)
py_float(x) == x

\* validate_place_data without the check of the latitude
validate_place_data_no_latitude(body) ==
    /\ ~IsEmpty(body)
    /\ body.name # Absent
    /\ body.price_per_night # Absent => ~(py_float(body.price_per_night[1]) < 0)
    /\ body.max_guests # Absent => ~(py_int(body.max_guests[1]) <= 0)
    /\ body.longitude # Absent =>
           (-1800 <= py_float(body.longitude[1]) /\ py_float(body.longitude[1]) <= 1800)

\* validate_place_data
validate_place_data(body) ==
    /\ ~IsEmpty(body)
    /\ body.name # Absent
    /\ body.price_per_night # Absent => ~(py_float(body.price_per_night[1]) < 0)
    /\ body.max_guests # Absent => ~(py_int(body.max_guests[1]) <= 0)
    /\ body.latitude # Absent =>
           (-900 <= py_float(body.latitude[1]) /\ py_float(body.latitude[1]) <= 900)
    /\ body.longitude # Absent =>
           (-1800 <= py_float(body.longitude[1]) /\ py_float(body.longitude[1]) <= 1800)

\* body.get(k)
BodyGet(body, k) == IF body[k] = Absent THEN <<>> ELSE body[k]

\* create_place: the Place stored; a field holds <<>> for None, <<v>> for v
create_place(body, owner_id) ==
    [k \in PlaceFields |-> IF k = "owner_id" THEN Some(owner_id) ELSE BodyGet(body, k)]

\* update_place: every key that names an attribute of the Place is set
update_place(place, body) ==
    [k \in PlaceFields |-> IF body[k] # Absent THEN body[k] ELSE place[k]]

\* Place.to_dict
place_to_dict(id, place) == [k \in PlaceFields \cup {"id"} |-> IF k = "id" THEN Some(id) ELSE place[k]]

\* get_place_by_id: the id of the place, 0 for None
get_place_by_id(pl, place_id) == IF place_id \in DOMAIN pl THEN place_id ELSE 0

\* PlacesList.post: status
PlacePostStatus(us, t, body) ==
    IF get_current_user(us, t) = 0 THEN 401
    ELSE IF ~validate_place_data(body) THEN 400
    ELSE 201

FreshPlaceId == CHOOSE i \in 1..(MaxPlaces + 1) : i \notin DOMAIN places

\* POST /places
PlacePost(t, body) ==
    \/ Unauthenticated("place_post", t, 0, body)
    \/ /\ jwt_required(t)
       /\ LET st == PlacePostStatus(users, t, body)
              id == FreshPlaceId
              pl == IF st = 201
                    THEN Put(places, id, create_place(body, get_current_user(users, t)))
                    ELSE places
          IN  /\ st = 201 => Cardinality(DOMAIN places) < MaxPlaces
              /\ places' = pl
              /\ last' = Reply("place_post", st, t, IF st = 201 THEN id ELSE 0, body,
                               IF st = 201 THEN <<place_to_dict(id, pl[id])>> ELSE <<>>)
       /\ UNCHANGED <<users, tokens, amenities, reviews, db_places, part2, in_flight>>

\* PlaceResource.put without the ownership check
PlacePutStatus_no_owner_check(us, pl, t, place_id, body) ==
    IF get_current_user(us, t) = 0 THEN 401
    ELSE IF get_place_by_id(pl, place_id) = 0 THEN 404
    ELSE IF ~IsEmpty(body) /\ ~validate_place_data(body) THEN 400
    ELSE 200

\* PlaceResource.put: status
PlacePutStatus(us, pl, t, place_id, body) ==
    IF get_current_user(us, t) = 0 THEN 401
    ELSE IF get_place_by_id(pl, place_id) = 0 THEN 404
    ELSE IF pl[place_id].owner_id # Some(get_current_user(us, t)) THEN 403
    ELSE IF ~IsEmpty(body) /\ ~validate_place_data(body) THEN 400
    ELSE 200

\* PUT /places/<place_id>
PlacePut(t, place_id, body) ==
    \/ Unauthenticated("place_put", t, place_id, body)
    \/ /\ jwt_required(t)
       /\ LET st == PlacePutStatus(users, places, t, place_id, body)
              pl == IF st = 200
                    THEN [places EXCEPT ![place_id] = update_place(@, body)]
                    ELSE places
          IN  /\ places' = pl
              /\ last' = Reply("place_put", st, t, place_id, body,
                               IF st = 200 THEN <<place_to_dict(place_id, pl[place_id])>>
                               ELSE <<>>)
       /\ UNCHANGED <<users, tokens, amenities, reviews, db_places, part2, in_flight>>

\* PlaceResource.delete: status
PlaceDeleteStatus(us, pl, t, place_id) ==
    IF get_current_user(us, t) = 0 THEN 401
    ELSE IF get_place_by_id(pl, place_id) = 0 THEN 404
    ELSE IF pl[place_id].owner_id # Some(get_current_user(us, t)) THEN 403
    ELSE 200

\* DELETE /places/<place_id>
PlaceDelete(t, place_id) ==
    \/ Unauthenticated("place_delete", t, place_id, EmptyPlaceBody)
    \/ /\ jwt_required(t)
       /\ LET st == PlaceDeleteStatus(users, places, t, place_id)
          IN  /\ places' = IF st = 200 THEN Remove(places, place_id) ELSE places
              /\ last' = Reply("place_delete", st, t, place_id, EmptyPlaceBody, <<>>)
       /\ UNCHANGED <<users, tokens, amenities, reviews, db_places, part2, in_flight>>

\* GET /places/<place_id> (public)
PlaceGet(place_id) ==
    /\ last' = IF get_place_by_id(places, place_id) = 0
               THEN Reply("place_get", 404, NoToken, place_id, EmptyPlaceBody, <<>>)
               ELSE Reply("place_get", 200, NoToken, place_id, EmptyPlaceBody,
                          <<place_to_dict(place_id, places[place_id])>>)
    /\ UNCHANGED <<users, tokens, amenities, stores>>

----------------------------------------------------------------------------
(* part2/hbnb: app/models, app/persistence, app/services/facade.py *)

MaxObjects == 2

\* what a facade method returned: True, False, None or an object (its id)
Return(op, id, data, value, obj) ==
    [op |-> op, id |-> id, data |-> data, value |-> value, obj |-> obj]

\* `field not in data or not data[field]`
Missing(data, field) == field \notin DOMAIN data \/ data[field] = <<>>

\* BaseModel.update: every key that names an attribute of the object is
\* set, the id included
BaseModel_update(obj, data) ==
    [k \in DOMAIN obj |-> IF k \in DOMAIN data THEN data[k] ELSE obj[k]]

\* InMemoryRepository.get_by_attribute: the keys of the objects that have
\* the attribute with the value (the method returns the first, or None)
get_by_attribute(repo, attr_name, attr_value) ==
    {k \in DOMAIN repo :
        attr_name \in DOMAIN repo[k] /\ repo[k][attr_name] = attr_value}

\* InMemoryRepository.get_by_attributes with one attribute: the ids of the
\* objects that have the attribute with the value
get_by_attributes(repo, attr_name, attr_value) ==
    {repo[k].id : k \in get_by_attribute(repo, attr_name, attr_value)}

\* InMemoryRepository.delete, for each id of a set
delete_all(repo, ids) == [k \in DOMAIN repo \ ids |-> repo[k]]

\* uuid4: an id that no repository has seen
FreshId(repo) ==
    CHOOSE i \in 1..(2 * MaxObjects + 2) :
        i \notin DOMAIN repo /\ \A k \in DOMAIN repo : repo[k].id # i

\* User.__init__(first_name, last_name, email, is_admin=False) raises:
\* TypeError on another keyword or a missing one, ValueError of
\* _validate_name and _validate_email
User_init_raises(data) ==
    \/ ~(DOMAIN data \subseteq {"first_name", "last_name", "email", "is_admin"})
    \/ ~({"first_name", "last_name", "email"} \subseteq DOMAIN data)
    \/ strip(data.first_name) = <<>>
    \/ strip(data.last_name) = <<>>
    \/ strip(data.email) = <<>>
    \/ ~EMAIL_REGEX(strip(data.email))

\* User.__init__: the attributes of the user
User_init(id, data) ==
    [id |-> id,
     first_name |-> strip(data.first_name),
     last_name |-> strip(data.last_name),
     email |-> lower(strip(data.email)),
     is_admin |-> IF "is_admin" \in DOMAIN data THEN data.is_admin ELSE FALSE]

\* Place.__init__: the attributes of a place
Place_init(id, title, owner_id, amenities_list) ==
    [id |-> id, title |-> title, description |-> "", price |-> 100,
     latitude |-> 0, longitude |-> 0, owner_id |-> owner_id,
     amenities |-> amenities_list]

\* Review.__init__: the attributes of a review
Review_init(id, text, rating, place_id, user_id) ==
    [id |-> id, text |-> text, rating |-> rating, place_id |-> place_id,
     user_id |-> user_id]

\* Amenity.__init__: the attributes of the amenity
Amenity_init(id, data) == [id |-> id, name |-> strip(data.name)]

\* HBnBFacade.create_user
HBnBFacade_create_user(data) ==
    /\ LET id == FreshId(user_repo)
       IN  IF \/ Missing(data, "email")
              \/ Missing(data, "password")
              \/ get_by_attribute(user_repo, "email", data.email) # {}
              \/ User_init_raises(data)
           THEN /\ user_repo' = user_repo
                /\ ret' = Return("create_user", 0, data, "None", 0)
           ELSE /\ user_repo' = Put(user_repo, id, User_init(id, data))
                /\ ret' = Return("create_user", 0, data, "object", id)
    /\ UNCHANGED <<place_repo, review_repo, amenity_repo>>
    /\ UNCHANGED <<users, tokens, amenities, reviews, db_places, places, last, in_flight>>

\* HBnBFacade.get_user
HBnBFacade_get_user(user_id) ==
    /\ ret' = IF user_id \in DOMAIN user_repo
              THEN Return("get_user", user_id, <<>>, "object", user_repo[user_id].id)
              ELSE Return("get_user", user_id, <<>>, "None", 0)
    /\ UNCHANGED <<user_repo, place_repo, review_repo, amenity_repo>>
    /\ UNCHANGED <<users, tokens, amenities, reviews, db_places, places, last, in_flight>>

\* HBnBFacade.delete_user
HBnBFacade_delete_user(user_id) ==
    /\ IF user_id \notin DOMAIN user_repo
       THEN /\ ret' = Return("delete_user", user_id, <<>>, "False", 0)
            /\ UNCHANGED <<user_repo, place_repo, review_repo>>
       ELSE /\ place_repo' =
                 delete_all(place_repo, get_by_attributes(place_repo, "user_id", user_id))
            /\ review_repo' =
                 delete_all(review_repo, get_by_attributes(review_repo, "user_id", user_id))
            /\ user_repo' = Remove(user_repo, user_id)
            /\ ret' = Return("delete_user", user_id, <<>>, "True", 0)
    /\ UNCHANGED amenity_repo
    /\ UNCHANGED <<users, tokens, amenities, reviews, db_places, places, last, in_flight>>

\* HBnBFacade.delete_place
HBnBFacade_delete_place(place_id) ==
    /\ IF place_id \notin DOMAIN place_repo
       THEN /\ ret' = Return("delete_place", place_id, <<>>, "False", 0)
            /\ UNCHANGED <<place_repo, review_repo>>
       ELSE /\ review_repo' =
                 delete_all(review_repo, get_by_attributes(review_repo, "place_id", place_id))
            /\ place_repo' = Remove(place_repo, place_id)
            /\ ret' = Return("delete_place", place_id, <<>>, "True", 0)
    /\ UNCHANGED <<user_repo, amenity_repo>>
    /\ UNCHANGED <<users, tokens, amenities, reviews, db_places, places, last, in_flight>>

\* HBnBFacade.delete_amenity; `amenity_id in place.amenity_ids` raises
\* AttributeError for a place without the attribute amenity_ids, and a
\* Place has the attribute amenities
HBnBFacade_delete_amenity(amenity_id) ==
    /\ IF \/ amenity_id \notin DOMAIN amenity_repo
          \/ \E k \in DOMAIN place_repo : "amenity_ids" \notin DOMAIN place_repo[k]
       THEN /\ ret' = Return("delete_amenity", amenity_id, <<>>, "False", 0)
            /\ UNCHANGED <<place_repo, amenity_repo>>
       ELSE /\ place_repo' = place_repo
            /\ amenity_repo' = Remove(amenity_repo, amenity_id)
            /\ ret' = Return("delete_amenity", amenity_id, <<>>, "True", 0)
    /\ UNCHANGED <<user_repo, review_repo>>
    /\ UNCHANGED <<users, tokens, amenities, reviews, db_places, places, last, in_flight>>

\* HBnBFacade.create_amenity; Amenity(**amenity_data) raises TypeError on
\* another keyword and ValueError of _validate_name on a blank name
HBnBFacade_create_amenity(data) ==
    /\ LET id == FreshId(amenity_repo)
       IN  IF \/ Missing(data, "name")
              \/ get_by_attribute(amenity_repo, "name", data.name) # {}
              \/ DOMAIN data # {"name"}
              \/ strip(data.name) = <<>>
           THEN /\ amenity_repo' = amenity_repo
                /\ ret' = Return("create_amenity", 0, data, "None", 0)
           ELSE /\ Cardinality(DOMAIN amenity_repo) < MaxObjects
                /\ amenity_repo' = Put(amenity_repo, id, Amenity_init(id, data))
                /\ ret' = Return("create_amenity", 0, data, "object", id)
    /\ UNCHANGED <<user_repo, place_repo, review_repo>>
    /\ UNCHANGED <<users, tokens, amenities, reviews, db_places, places, last, in_flight>>

\* HBnBFacade.update_amenity
HBnBFacade_update_amenity(amenity_id, data) ==
    /\ IF \/ amenity_id \notin DOMAIN amenity_repo
          \/ /\ "name" \in DOMAIN data
             /\ data.name # amenity_repo[amenity_id].name
             /\ get_by_attribute(amenity_repo, "name", data.name) # {}
       THEN /\ amenity_repo' = amenity_repo
            /\ ret' = Return("update_amenity", amenity_id, data, "False", 0)
       ELSE /\ amenity_repo' =
                 [amenity_repo EXCEPT ![amenity_id] = BaseModel_update(@, data)]
            /\ ret' = Return("update_amenity", amenity_id, data, "True", 0)
    /\ UNCHANGED <<user_repo, place_repo, review_repo>>
    /\ UNCHANGED <<users, tokens, amenities, reviews, db_places, places, last, in_flight>>

\* HBnBFacade.update_review
HBnBFacade_update_review(review_id, data) ==
    /\ IF \/ review_id \notin DOMAIN review_repo
          \/ "place_id" \in DOMAIN data /\ data.place_id \notin DOMAIN place_repo
          \/ "user_id" \in DOMAIN data /\ data.user_id \notin DOMAIN user_repo
       THEN /\ review_repo' = review_repo
            /\ ret' = Return("update_review", review_id, data, "False", 0)
       ELSE /\ review_repo' =
                 [review_repo EXCEPT ![review_id] = BaseModel_update(@, data)]
            /\ ret' = Return("update_review", review_id, data, "True", 0)
    /\ UNCHANGED <<user_repo, place_repo, amenity_repo>>
    /\ UNCHANGED <<users, tokens, amenities, reviews, db_places, places, last, in_flight>>

\* InMemoryRepository.add, on the repository of amenities
InMemoryRepository_add(obj) ==
    /\ IF obj.id \in DOMAIN amenity_repo
       THEN /\ amenity_repo' = amenity_repo
            /\ ret' = Return("add", obj.id, obj, "False", 0)
       ELSE /\ Cardinality(DOMAIN amenity_repo) < MaxObjects
            /\ amenity_repo' = Put(amenity_repo, obj.id, obj)
            /\ ret' = Return("add", obj.id, obj, "True", 0)
    /\ UNCHANGED <<user_repo, place_repo, review_repo>>
    /\ UNCHANGED <<users, tokens, amenities, reviews, db_places, places, last, in_flight>>

\* InMemoryRepository.update: obj.update(data) on the stored object
InMemoryRepository_update(obj_id, data) ==
    /\ IF obj_id \in DOMAIN amenity_repo
       THEN /\ amenity_repo' =
                 [amenity_repo EXCEPT ![obj_id] = BaseModel_update(@, data)]
            /\ ret' = Return("update", obj_id, data, "True", 0)
       ELSE /\ amenity_repo' = amenity_repo
            /\ ret' = Return("update", obj_id, data, "False", 0)
    /\ UNCHANGED <<user_repo, place_repo, review_repo>>
    /\ UNCHANGED <<users, tokens, amenities, reviews, db_places, places, last, in_flight>>

\* InMemoryRepository.delete
InMemoryRepository_delete(obj_id) ==
    /\ amenity_repo' = delete_all(amenity_repo, {obj_id})
    /\ ret' = Return("delete", obj_id, <<>>,
                     IF obj_id \in DOMAIN amenity_repo THEN "True" ELSE "False", 0)
    /\ UNCHANGED <<user_repo, place_repo, review_repo>>
    /\ UNCHANGED <<users, tokens, amenities, reviews, db_places, places, last, in_flight>>

\* InMemoryRepository.clear
InMemoryRepository_clear ==
    /\ amenity_repo' = <<>>
    /\ ret' = Return("clear", 0, <<>>, "None", 0)
    /\ UNCHANGED <<user_repo, place_repo, review_repo>>
    /\ UNCHANGED <<users, tokens, amenities, reviews, db_places, places, last, in_flight>>

----------------------------------------------------------------------------
(* Specifications *)

Tokens == tokens \cup {NoToken}
UserIds == 1..(Len(users) + 1)
AmenityIds == 1..MaxAmenities

\* registration and the administration of users
Next ==
    \/ \E r \in RegistrationInputs : Register(r[1], r[2], None, r[3])
    \/ \E r \in LoginInputs : Login(r[1], r[2])
    \/ \E t \in Tokens, r \in RegistrationInputs :
          AdminUserPost(t, r[1], r[2], None, r[3])
    \/ \E t \in Tokens, id \in UserIds, b \in AdminEmailBodies : AdminUserPut(t, id, b)

Spec == Init /\ [][Next]_vars

\* every endpoint that answers with a user
NextUsers ==
    \/ \E r \in RegistrationInputs : Register(r[1], r[2], None, r[3])
    \/ \E r \in LoginInputs : Login(r[1], r[2])
    \/ \E t \in Tokens, id \in UserIds : UserGet(t, id)
    \/ \E t \in Tokens, id \in UserIds, b \in UserPutBodies : UserPut(t, id, b)
    \/ \E t \in Tokens : CurrentUser(t)
    \/ \E t \in Tokens : UserList(t)
    \/ \E t \in Tokens, r \in RegistrationInputs :
          AdminUserPost(t, r[1], r[2], None, r[3])
    \/ \E t \in Tokens : AdminUserGet(t)
    \/ \E t \in Tokens, id \in UserIds, b \in AdminPutBodies : AdminUserPut(t, id, b)

SpecUsers == Init /\ [][NextUsers]_vars

\* login, logout and the protected endpoint
NextLogout ==
    \/ \E r \in RegistrationInputs : Register(r[1], r[2], None, r[3])
    \/ \E r \in LoginInputs : Login(r[1], r[2])
    \/ \E t \in Tokens : Protected(t)
    \/ \E t \in Tokens : Logout(t)
    \/ \E t \in Tokens : CurrentUser(t)
    \/ \E t \in tokens : ExpireToken(t)

SpecLogout == Init /\ [][NextLogout]_vars

\* (email, password, is_admin) of the users of the login and /admin
\* endpoints
AdminRegistrationInputs ==
    {<<EmailLower, "secret1", TRUE>>,
     <<EmailOther, "secret1", FALSE>>,
     <<EmailOther, "short", FALSE>>}

\* bodies of PUT /users/<id> that carry a password hash
HashBodies ==
    {UserBody(Absent, Absent, Absent, Absent, Absent, Some(<<"bcrypt", "hunter22">>)),
     UserBody(Absent, Absent, Some("Ann"), Absent, Absent, Absent)}

\* login and the protected endpoint
NextAuth ==
    \/ \E r \in AdminRegistrationInputs : Register(r[1], r[2], None, r[3])
    \/ \E r \in LoginInputs : Login(r[1], r[2])
    \/ \E t \in Tokens : Protected(t)
    \/ \E t \in tokens : ExpireToken(t)
    \/ \E t \in Tokens, id \in UserIds, b \in HashBodies : UserPut(t, id, b)
    \/ \E t \in Tokens, id \in UserIds, b \in AdminEmailBodies : AdminUserPut(t, id, b)

SpecAuth == Init /\ [][NextAuth]_vars

\* the /admin endpoints
NextAdmin ==
    \/ \E r \in AdminRegistrationInputs : Register(r[1], r[2], None, r[3])
    \/ \E r \in {<<EmailLower, "secret1">>, <<EmailOther, "secret1">>} :
          Login(r[1], r[2])
    \/ \E t \in Tokens, r \in AdminRegistrationInputs :
          AdminUserPost(t, r[1], r[2], None, r[3])
    \/ \E t \in Tokens : AdminUserGet(t)
    \/ \E t \in Tokens, id \in UserIds, b \in AdminPutBodies : AdminUserPut(t, id, b)
    \/ \E t \in Tokens, b \in AmenityBodies : AdminAmenityPost(t, b)
    \/ \E t \in Tokens : AdminAmenityGet(t)
    \/ \E t \in Tokens, id \in AmenityIds, b \in AmenityBodies :
          AdminAmenityPut(t, id, b)
    \/ \E t \in Tokens, id \in AmenityIds : AdminAmenityDelete(t, id)

SpecAdmin == Init /\ [][NextAdmin]_vars

\* two registered users, logged in: the first is the test user that owns
\* the places of create_sample_data.py, the second is an administrator
SeededUsers ==
    <<NewUser(EmailLower, "secret1", None, None, FALSE),
      NewUser(EmailOther, "secret1", None, None, TRUE)>>

SeededTokens == {create_access_token(i, SeededUsers[i].is_admin) : i \in 1..2}

\* the table places after create_sample_data.py (the first two places)
SeededPlaces == <<[owner_id |-> 1], [owner_id |-> 1]>>

InitReviews ==
    /\ InitFacadeEmpty
    /\ in_flight = [w \in {1, 2} |-> [pc |-> "idle"]]
    /\ users = SeededUsers
    /\ tokens = SeededTokens
    /\ amenities = <<>>
    /\ reviews = <<>>
    /\ db_places = SeededPlaces
    /\ places = <<>>
    /\ last = Reply("init", 0, NoToken, 0, EmptyReviewBody, <<>>)

\* bodies of POST /reviews
ReviewPostBodies ==
    {ReviewBody(Some(1), Some(30), Some("nice"), Absent),
     ReviewBody(Some(2), Some(30), Absent, Absent),
     ReviewBody(Some(2), Some(59), Absent, Absent),
     ReviewBody(Some(1), Some(60), Absent, Absent),
     ReviewBody(Some(1), Some(5), Absent, Absent),
     ReviewBody(Some(3), Some(30), Absent, Absent),
     ReviewBody(Some(1), Absent, Absent, Absent),
     EmptyReviewBody}

\* bodies of PUT /reviews/<id>
ReviewPutBodies ==
    {ReviewBody(Absent, Some(50), Absent, Absent),
     ReviewBody(Absent, Some(60), Absent, Absent),
     ReviewBody(Absent, Absent, Some("so so"), Absent),
     ReviewBody(Some(1), Absent, Absent, Absent),
     ReviewBody(Absent, Absent, Absent, Some(1)),
     EmptyReviewBody}

ReviewIds == 1..MaxReviews

\* the reviews
NextReviews ==
    \/ \E t \in Tokens, b \in ReviewPostBodies : ReviewPost(t, b)
    \/ \E t \in Tokens, id \in ReviewIds, b \in ReviewPutBodies : ReviewPut(t, id, b)
    \/ \E t \in Tokens, id \in ReviewIds : ReviewDelete(t, id)
    \/ \E p \in 1..3 : PlaceReviews(p)

SpecReviews == InitReviews /\ [][NextReviews]_vars

InitPlaces ==
    /\ InitFacadeEmpty
    /\ in_flight = [w \in {1, 2} |-> [pc |-> "idle"]]
    /\ users = SeededUsers
    /\ tokens = SeededTokens
    /\ amenities = <<>>
    /\ reviews = <<>>
    /\ db_places = SeededPlaces
    /\ places = <<>>
    /\ last = Reply("init", 0, NoToken, 0, EmptyPlaceBody, <<>>)

\* bodies of POST /places
PlacePostBodies ==
    {PlaceBody([name |-> "Loft", price_per_night |-> 1000, max_guests |-> 20,
                latitude |-> 100, longitude |-> 200]),
     PlaceBody([name |-> "Hut"]),
     PlaceBody([description |-> "no name"]),
     PlaceBody([name |-> "Hut", latitude |-> 905]),
     PlaceBody([name |-> "Hut", max_guests |-> 5])}

\* bodies of PUT /places/<id>
PlacePutBodies ==
    {EmptyPlaceBody,
     PlaceBody([name |-> "Den"]),
     PlaceBody([name |-> "Den", owner_id |-> 2]),
     PlaceBody([price_per_night |-> 500]),
     PlaceBody([name |-> "Den", longitude |-> -1805]),
     PlaceBody([name |-> "Den", latitude |-> -900, longitude |-> 1800]),
     PlaceBody([name |-> "Den", latitude |-> 901]),
     PlaceBody([name |-> "Den", price_per_night |-> -10])}

PlaceIds == 1..MaxPlaces

\* the places
NextPlaces ==
    \/ \E t \in Tokens, b \in PlacePostBodies : PlacePost(t, b)
    \/ \E t \in Tokens, id \in PlaceIds, b \in PlacePutBodies : PlacePut(t, id, b)
    \/ \E t \in Tokens, id \in PlaceIds : PlaceDelete(t, id)
    \/ \E id \in PlaceIds : PlaceGet(id)

SpecPlaces == InitPlaces /\ [][NextPlaces]_vars

\* POST /users handled by two workers at the same time, each request in
\* two steps
NextConcurrent ==
    \/ \E w \in {1, 2}, r \in RegistrationInputs :
          UserRegistration_check(w, r[1], r[2], None, r[3])
    \/ \E w \in {1, 2} : UserRegistration_commit(w)

SpecConcurrent == Init /\ [][NextConcurrent]_vars

\* the part2 facade over any contents of its repositories: the users,
\* places, reviews and amenities a repository may hold at the start are
\* objects built by the constructors and stored by InMemoryRepository.add
\* under their ids
InitFacade ==
    /\ users = <<>>
    /\ tokens = {}
    /\ amenities = <<>>
    /\ reviews = <<>>
    /\ db_places = <<>>
    /\ places = <<>>
    /\ last = Response("init", 0, NoToken, 0, <<>>, "", <<>>, NoToken)
    /\ user_repo \in
         {<<User_init(1, [first_name |-> <<"J", "o">>, last_name |-> <<"D", "o">>,
                          email |-> EmailLower])>>,
          <<User_init(1, [first_name |-> <<"J", "o">>, last_name |-> <<"D", "o">>,
                          email |-> EmailLower]),
            User_init(2, [first_name |-> <<"A", "l">>, last_name |-> <<"D", "o">>,
                          email |-> EmailOther])>>}
    /\ place_repo \in
         {<<>>,
          <<Place_init(1, "Loft", 1, <<1>>)>>,
          <<Place_init(1, "Loft", 1, <<>>), Place_init(2, "Hut", 2, <<1>>)>>}
    /\ review_repo \in
         {<<>>,
          <<Review_init(1, <<"o", "k">>, 5, 1, 1)>>,
          <<Review_init(1, <<"o", "k">>, 5, 1, 1),
            Review_init(2, <<"o", "k">>, 3, 2, 1)>>}
    /\ amenity_repo \in {<<>>, <<Amenity_init(1, [name |-> <<"W", "i">>])>>}
    /\ ret = [op |-> "init"]
    /\ in_flight = [w \in {1, 2} |-> [pc |-> "idle"]]

\* the calls of the part2 facade: user_data with and without a password,
\* amenity names with and without surrounding blanks, review_data with the
\* keys id and place_id
NextFacade ==
    \/ \E d \in {[email |-> EmailOther, password |-> <<"p", "w">>,
                  first_name |-> <<"A", "l">>, last_name |-> <<"D", "o">>],
                 [email |-> EmailLower, password |-> <<"p", "w">>,
                  first_name |-> <<"A", "l">>, last_name |-> <<"D", "o">>],
                 [email |-> EmailOther,
                  first_name |-> <<"A", "l">>, last_name |-> <<"D", "o">>],
                 [email |-> EmailOther, password |-> <<>>,
                  first_name |-> <<"A", "l">>, last_name |-> <<"D", "o">>]} :
          HBnBFacade_create_user(d)
    \/ \E id \in 1..(MaxObjects + 1) : HBnBFacade_get_user(id)
    \/ \E id \in 1..(MaxObjects + 1) : HBnBFacade_delete_user(id)
    \/ \E id \in 1..(MaxObjects + 1) : HBnBFacade_delete_place(id)
    \/ \E id \in 1..(MaxObjects + 1) : HBnBFacade_delete_amenity(id)
    \/ \E name \in {<<"W", "i">>, <<" ", "W", "i">>, <<"P", "o">>} :
          HBnBFacade_create_amenity([name |-> name])
    \/ \E id \in 1..(MaxObjects + 1),
          name \in {<<"W", "i">>, <<" ", "W", "i">>, <<"P", "o">>} :
          HBnBFacade_update_amenity(id, [name |-> name])
    \/ \E id \in 1..(MaxObjects + 1), d \in {[id |-> 3], [place_id |-> 2]} :
          HBnBFacade_update_review(id, d)

SpecFacade == InitFacade /\ [][NextFacade]_vars

\* the calls of an InMemoryRepository that starts empty: objects with any
\* id, data with the keys name and id
NextRepository ==
    \/ \E id \in 1..(MaxObjects + 1), name \in {<<"W", "i">>, <<"P", "o">>} :
          InMemoryRepository_add(Amenity_init(id, [name |-> name]))
    \/ \E k \in 1..(MaxObjects + 1),
          data \in {[name |-> <<"P", "o">>]}
                     \cup {[id |-> i] : i \in 1..(MaxObjects + 1)} :
          InMemoryRepository_update(k, data)
    \/ \E k \in 1..(MaxObjects + 1) : InMemoryRepository_delete(k)
    \/ InMemoryRepository_clear

SpecRepository == Init /\ [][NextRepository]_vars

----------------------------------------------------------------------------
(* Claims *)

\* no two stored users have the same email
UniqueEmails(us) ==
    \A i, j \in 1..Len(us) : i # j => us[i].email # us[j].email

\* the email belongs to a stored user
EmailTaken(us, email) == \E i \in 1..Len(us) : us[i].email = email

\* C1: after any sequence of POST /users, POST /admin/users and
\* PUT /admin/users/<id>, no two stored users have the same email, and a
\* registration or admin creation (valid and authorized otherwise) whose
\* email already belongs to a stored user is answered with 409 and leaves
\* the users unchanged.
C1_DuplicateEmailRejected ==
    [][/\ UniqueEmails(users')
       /\ (/\ last'.op \in {"register", "admin_user_post"}
           /\ last'.status \notin {400, 401, 403}
           /\ EmailTaken(users, last'.email))
          => (last'.status = 409 /\ users' = users)]_vars

\* the email and the password are those of a stored user (the email up to
\* the normalisation of User._normalize_email)
Authentic(us, email, password) ==
    \E i \in 1..Len(us) :
        /\ normalize_email(us[i].email) = normalize_email(email)
        /\ us[i].password_hash = hash_password(password)

\* C6: POST /auth/login answers 200 with an access token exactly when the
\* email names a stored user and the password matches that user's hash,
\* and 400 or 401 without a token otherwise; GET /auth/protected accepts an
\* issued token and reports the id of the user who logged in.
C6_LoginExactlyWhenAuthentic ==
    [][/\ last'.op = "login" =>
            IF Authentic(users, last'.email, last'.password)
            THEN last'.status = 200 /\ last'.issued \in tokens'
                 /\ last'.issued.sub \in 1..Len(users)
                 /\ normalize_email(users[last'.issued.sub].email)
                        = normalize_email(last'.email)
            ELSE last'.status \in {400, 401} /\ last'.issued = NoToken
                 /\ tokens' = tokens
       /\ (last'.op = "protected" /\ last'.tok \in tokens) =>
            (last'.status = 200 /\ last'.target = last'.tok.sub)]_vars

\* C7: no response of a user endpoint carries a user's password or
\* password hash: no dictionary of a response has the key password or
\* password_hash.
C7_NoPasswordInResponse ==
    \A i \in 1..Len(last.data) :
        /\ "password" \notin DOMAIN last.data[i]
        /\ "password_hash" \notin DOMAIN last.data[i]

\* C7: the list of users was answered with two users
C7_Witness ==
    /\ last.op = "user_list"
    /\ last.status = 200
    /\ Len(last.data) = 2

\* C8: GET or PUT /users/<user_id> by a caller whose token identity is not
\* user_id and whose token carries no is_admin claim is rejected (401),
\* answers with no user data and changes no user.
C8_OthersDataProtected ==
    [][(/\ last'.op \in {"user_get", "user_put"}
        /\ last'.tok.sub # last'.target
        /\ ~last'.tok.is_admin)
       => (/\ last'.status = 401
           /\ last'.data = <<>>
           /\ users' = users)]_vars

\* C8: a logged-in user who is no admin asked to change another stored user
C8_Witness ==
    /\ last.op = "user_put"
    /\ last.status = 401
    /\ last.tok \in tokens
    /\ ~last.tok.is_admin
    /\ last.target \in 1..Len(users)
    /\ last.tok.sub # last.target

\* C9: PUT /users/<user_id> changes neither the email nor the password hash
\* of the target user, whatever the body.
C9_PutKeepsEmailAndPassword ==
    [][(last'.op = "user_put" /\ last'.target \in 1..Len(users))
       => (/\ users'[last'.target].email = users[last'.target].email
           /\ users'[last'.target].password_hash
                  = users[last'.target].password_hash)]_vars

\* C10: an /admin endpoint called with a token whose is_admin claim is
\* false is answered with 403 and changes neither users nor amenities.
AdminOps ==
    {"admin_user_post", "admin_user_get", "admin_user_put",
     "admin_amenity_post", "admin_amenity_get", "admin_amenity_put",
     "admin_amenity_delete"}

C10_AdminOnly ==
    [][(/\ last'.op \in AdminOps
        /\ last'.tok \in tokens
        /\ ~last'.tok.is_admin)
       => (/\ last'.status = 403
           /\ users' = users
           /\ amenities' = amenities)]_vars

\* C10: a logged-in user who is no admin asked to delete a stored amenity
C10_Witness ==
    /\ last.op = "admin_amenity_delete"
    /\ last.status = 403
    /\ last.tok \in tokens
    /\ ~last.tok.is_admin
    /\ last.target \in DOMAIN amenities

\* the request is one the review handlers answer on its content: the caller
\* is logged in and, for a PUT, allowed to change the review
Admitted(st) == st \notin {401, 403, 404, 409}

\* C2: every stored review has a rating r with 1 <= r <= 5, and a POST or
\* PUT /reviews carrying a rating outside that range is answered with 400
\* and neither stores nor changes a review.
C2_RatingBounded ==
    [][/\ \A r \in DOMAIN reviews' :
             10 <= reviews'[r].rating /\ reviews'[r].rating <= 50
       /\ (/\ last'.op \in {"review_post", "review_put"}
           /\ Admitted(last'.status)
           /\ last'.body.rating # Absent
           /\ ~(10 <= last'.body.rating[1] /\ last'.body.rating[1] <= 50))
          => (last'.status = 400 /\ reviews' = reviews)]_vars

\* C3: no stored review is written by the owner of the place it names, and a
\* POST /reviews by the owner of the place is answered with 403 and stores
\* nothing.
C3_NoReviewOfOwnPlace ==
    [][/\ \A r \in DOMAIN reviews' :
             reviews'[r].place_id \in DOMAIN db_places'
                 => reviews'[r].user_id # db_places'[reviews'[r].place_id].owner_id
       /\ (/\ last'.op = "review_post"
           /\ last'.tok \in tokens
           /\ validate_review_data(last'.body)
           /\ last'.body.place_id[1] \in DOMAIN db_places
           /\ db_places[last'.body.place_id[1]].owner_id = last'.tok.sub)
          => (last'.status = 403 /\ reviews' = reviews)]_vars

\* C4: the review store holds at most one review for each pair of user and
\* place, and a POST /reviews by a user who has a review of that place is
\* answered with 409 and stores nothing.
C4_OneReviewPerUserAndPlace ==
    [][/\ \A r, q \in DOMAIN reviews' :
             (/\ reviews'[r].user_id = reviews'[q].user_id
              /\ reviews'[r].place_id = reviews'[q].place_id) => r = q
       /\ (/\ last'.op = "review_post"
           /\ last'.tok \in tokens
           /\ validate_review_data(last'.body)
           /\ last'.status # 403
           /\ \E r \in DOMAIN reviews :
                 /\ reviews[r].user_id = last'.tok.sub
                 /\ reviews[r].place_id = last'.body.place_id[1])
          => (last'.status = 409 /\ reviews' = reviews)]_vars

\* C5: a PUT or DELETE /places/<place_id> by a logged-in user who is not the
\* owner of the place is answered with 403 and leaves the place store as it
\* was.
C5_NonOwnerCannotChangePlace ==
    [][(/\ last'.op \in {"place_put", "place_delete"}
        /\ last'.tok \in tokens
        /\ get_current_user(users, last'.tok) # 0
        /\ last'.target \in DOMAIN places
        /\ places[last'.target].owner_id # Some(last'.tok.sub))
       => (last'.status = 403 /\ places' = places)]_vars

\* a non-owner, here an administrator, was refused a valid update of a place
C5_Witness ==
    /\ last.op = "place_put"
    /\ last.status = 403
    /\ last.tok.is_admin
    /\ validate_place_data(last.body)
    /\ last.target \in DOMAIN places
    /\ places[last.target].owner_id # Some(last.tok.sub)

\* C11: an administrator's PUT /admin/users/<id> with a new password of at
\* least 6 characters is answered with 200, and afterwards the user's stored
\* hash verifies the new password and no longer the old one.
C11_AdminSetsPassword ==
    [][(/\ last'.op = "admin_user_put"
        /\ last'.tok \in tokens
        /\ get_current_admin_user(users, last'.tok) # 0
        /\ get_by_id(users, last'.target) # 0
        /\ last'.email = <<>>
        /\ last'.password # ""
        /\ validate_password(last'.password) = "ok")
       => (/\ last'.status = 200
           /\ verify_password(users'[last'.target], last'.password) = "true"
           /\ users[last'.target].password_hash # hash_password(last'.password)
                 => users'[last'.target].password_hash
                        # users[last'.target].password_hash)]_vars

\* C12: after a successful POST /auth/logout, a request that presents the
\* same access token to a JWT-protected endpoint is rejected (here: the
\* request that comes next).
C12_LogoutInvalidatesToken ==
    [][(/\ last.op = "logout"
        /\ last.status = 200
        /\ last'.op \in {"protected", "user_me", "logout"}
        /\ last'.tok = last.tok)
       => last'.status = 401]_vars

\* the latitude, the longitude lies in its range (in tenths of a degree)
LatitudeOk(lat) == -900 <= lat /\ lat <= 900
LongitudeOk(lon) == -1800 <= lon /\ lon <= 1800

\* C13: every stored place has its latitude, when set, in [-90, 90] and its
\* longitude, when set, in [-180, 180]; a POST or PUT /places carrying a
\* coordinate outside its range is answered with 400 and stores or changes
\* nothing.
C13_CoordinatesBounded ==
    [][/\ \A p \in DOMAIN places' :
             /\ places'[p].latitude # <<>> => LatitudeOk(places'[p].latitude[1])
             /\ places'[p].longitude # <<>> => LongitudeOk(places'[p].longitude[1])
       /\ (/\ last'.op \in {"place_post", "place_put"}
           /\ last'.status \notin {401, 403, 404}
           /\ \/ last'.body.latitude # Absent /\ ~LatitudeOk(last'.body.latitude[1])
              \/ last'.body.longitude # Absent /\ ~LongitudeOk(last'.body.longitude[1]))
          => (last'.status = 400 /\ places' = places)]_vars

\* the owner of a place that has coordinates was refused a latitude of 90.1
C13_Witness ==
    /\ last.op = "place_put"
    /\ last.status = 400
    /\ last.body.latitude # Absent
    /\ ~LatitudeOk(last.body.latitude[1])
    /\ last.target \in DOMAIN places
    /\ places[last.target].owner_id = Some(last.tok.sub)
    /\ places[last.target].latitude # <<>>

\* the values a body supplies for the updatable fields are valid
SuppliedValuesValid(body) ==
    /\ body.price_per_night # Absent => body.price_per_night[1] >= 0
    /\ body.max_guests # Absent => body.max_guests[1] >= 10
    /\ body.latitude # Absent => LatitudeOk(body.latitude[1])
    /\ body.longitude # Absent => LongitudeOk(body.longitude[1])

\* C14: a PUT /places/<place_id> by the owner whose body holds a non-empty
\* subset of the updatable fields with valid values is answered with 200,
\* sets the supplied fields and leaves the other fields of the place as
\* they were.
C14_PartialUpdate ==
    [][(/\ last'.op = "place_put"
        /\ last'.tok \in tokens
        /\ last'.target \in DOMAIN places
        /\ places[last'.target].owner_id = Some(last'.tok.sub)
        /\ ~IsEmpty(last'.body)
        /\ last'.body.owner_id = Absent
        /\ SuppliedValuesValid(last'.body))
       => (/\ last'.status = 200
           /\ DOMAIN places' = DOMAIN places
           /\ \A k \in PlaceFields :
                 places'[last'.target][k] =
                    IF last'.body[k] # Absent THEN last'.body[k]
                    ELSE places[last'.target][k])]_vars

\* C15: POST /admin/amenities with a name that a stored amenity has is
\* answered with 409 and leaves the stored amenities as they were, and no
\* two stored amenities share a name.
C15_DuplicateAmenityName ==
    [][/\ \A a, b \in DOMAIN amenities' :
             amenities'[a].name = amenities'[b].name => a = b
       /\ (/\ last'.op = "admin_amenity_post"
           /\ last'.status \notin {401, 403}
           /\ last'.body.name # Absent
           /\ \E a \in DOMAIN amenities : amenities[a].name = last'.body.name[1])
          => (last'.status = 409 /\ amenities' = amenities)]_vars

\* the four fields of a create_user call are present and non-empty and the
\* e-mail address is stored for no user
FreshUserData(data) ==
    /\ \A f \in {"email", "password", "first_name", "last_name"} : ~Missing(data, f)
    /\ \A k \in DOMAIN user_repo : user_repo[k].email # lower(strip(data.email))

\* C16: create_user with an e-mail address that no stored user has, a
\* non-empty password and first and last names returns the created user,
\* and get_user of its id finds it.
C16_CreateUserReturnsUser ==
    [][(ret'.op = "create_user" /\ FreshUserData(ret'.data))
         => /\ ret'.value = "object"
            /\ ret'.obj \in DOMAIN user_repo'
            /\ user_repo'[ret'.obj].id = ret'.obj]_vars

\* C17: after delete_user(u) returned True the user u is stored no more, no
\* stored place is owned by u and no stored review was written by u.
C17_DeleteUserCascades ==
    [][(ret'.op = "delete_user" /\ ret'.value = "True")
         => /\ ret'.id \notin DOMAIN user_repo'
            /\ \A k \in DOMAIN place_repo' : place_repo'[k].owner_id # ret'.id
            /\ \A k \in DOMAIN review_repo' : review_repo'[k].user_id # ret'.id]_vars

\* C18: after delete_place(p) returned True the place p is stored no more
\* and no stored review has place_id p; delete_place of an id that is not
\* stored returns False and changes nothing.
C18_DeletePlaceCascades ==
    [][ret'.op = "delete_place"
         => IF ret'.id \in DOMAIN place_repo
            THEN ret'.value = "True"
                   => /\ ret'.id \notin DOMAIN place_repo'
                      /\ \A k \in DOMAIN review_repo' :
                             review_repo'[k].place_id # ret'.id
            ELSE /\ ret'.value = "False"
                 /\ UNCHANGED <<user_repo, place_repo, review_repo, amenity_repo>>]_vars

\* C19: delete_amenity(a) of a stored amenity returns True; afterwards the
\* amenity is stored no more and the amenity list of no place holds a.
C19_DeleteAmenityCascades ==
    [][(ret'.op = "delete_amenity" /\ ret'.id \in DOMAIN amenity_repo)
         => /\ ret'.value = "True"
            /\ ret'.id \notin DOMAIN amenity_repo'
            /\ \A k \in DOMAIN place_repo' :
                   \A j \in 1..Len(place_repo'[k].amenities) :
                       place_repo'[k].amenities[j] # ret'.id]_vars

\* no two stored amenities have the same name
AmenityNamesUnique(repo) ==
    \A i \in DOMAIN repo : \A j \in DOMAIN repo : i # j => repo[i].name # repo[j].name

\* C20: after any create_amenity or update_amenity no two stored amenities
\* share a name; creating an amenity with a stored name, or renaming one to
\* the name of another, fails and changes nothing.
C20_AmenityNamesUnique ==
    [][/\ ret'.op \in {"create_amenity", "update_amenity"}
            => AmenityNamesUnique(amenity_repo')
       /\ (ret'.op = "create_amenity" /\ ~Missing(ret'.data, "name")
             /\ \E k \in DOMAIN amenity_repo : amenity_repo[k].name = ret'.data.name)
            => (ret'.value = "None" /\ amenity_repo' = amenity_repo)
       /\ (ret'.op = "update_amenity" /\ "name" \in DOMAIN ret'.data
             /\ \E k \in DOMAIN amenity_repo \ {ret'.id} :
                    amenity_repo[k].name = ret'.data.name)
            => (ret'.value = "False" /\ amenity_repo' = amenity_repo)]_vars

\* C21: when two POST /users requests with the same e-mail address, stored
\* for no user, have both passed the existence check before either was
\* committed, one is answered 201 and the other 409, and one user with the
\* address is stored.
C21_ConcurrentRegistration ==
    \A w \in {1, 2} : \A v \in {1, 2} \ {w} :
        (/\ in_flight[w].pc = "done" /\ in_flight[w].saved
         /\ in_flight[v].pc = "done" /\ in_flight[v].saved
         /\ in_flight[w].email = in_flight[v].email)
          => /\ {in_flight[w].status, in_flight[v].status} = {201, 409}
             /\ Cardinality({i \in 1..Len(users) :
                    users[i].email = normalize_email(in_flight[w].email)}) = 1

\* both workers passed the check with the same address and both answered
C21_Witness ==
    /\ in_flight[1].pc = "done" /\ in_flight[1].saved
    /\ in_flight[2].pc = "done" /\ in_flight[2].saved
    /\ in_flight[1].email = in_flight[2].email
    /\ in_flight[1].status = 409
    /\ in_flight[2].status = 201

\* C22: after any sequence of add, update, delete and clear every key k of
\* the storage maps to an object whose id is k, so get(obj.id) returns obj
\* for every stored object and count() is the number of distinct stored
\* ids.
C22_KeyIsId ==
    /\ \A k \in DOMAIN amenity_repo : amenity_repo[k].id = k
    /\ \A k \in DOMAIN amenity_repo :
           /\ amenity_repo[k].id \in DOMAIN amenity_repo
           /\ amenity_repo[amenity_repo[k].id] = amenity_repo[k]
    /\ Cardinality(DOMAIN amenity_repo)
         = Cardinality({amenity_repo[k].id : k \in DOMAIN amenity_repo})

====
